---- MODULE Spec2Model ----
(***************************************************************************)
(* Masked, multi-component action selection of the MicroRTS PPO agents     *)
(* (ppo_diverse_maxcho.py, ppo_maxcho_v2.py, ppo_diverse_downsize.py) and  *)
(* the rollout / optimisation loop that drives it.                         *)
(*                                                                         *)
(* Numbers.  A logit is a small natural number, exp() is modelled by       *)
(* powers of two and a probability is an exact fraction <<num, den>> in    *)
(* lowest terms.  The float32 softmax of torch.distributions.Categorical   *)
(* gives an entry whose logit lies 1e8 below the row maximum the weight    *)
(* exp(-1e8) = 0 exactly, and gives equal logits equal weights: both facts *)
(* are kept.  Indices into an action component are 0-based as in the code; *)
(* TLA+ sequences are 1-based, so index a of the code is position a + 1.   *)
(***************************************************************************)
EXTENDS Integers, Sequences, FiniteSets, TLC

(* ------------------------------------------------------------------ *)
(* Configuration                                                       *)
(* ------------------------------------------------------------------ *)

\* envs.action_space.nvec: the size of every action component, source first.
NVec == <<2, 2>>

\* args.num_envs, args.num_steps, args.n_minibatch, args.update_epochs: set on
\* the command line.  The model runs a small configuration: two environments,
\* one step per rollout, two minibatches of one sample, one epoch, one update.
NumEnvs == 2
NumSteps == 1
NMinibatch == 2
UpdateEpochs == 1

\* args.total_timesteps.
TotalTimesteps == 2

\* The largest logit the actor layer produces (logits range over 0..MaxLogit).
MaxLogit == 1

\* The fill value of torch.where in CategoricalMasked.__init__.
Sentinel == -100000000

\* args.batch_size, args.minibatch_size and num_updates.
BatchSize == NumEnvs * NumSteps
MinibatchSize == BatchSize \div NMinibatch
NumUpdates == TotalTimesteps \div BatchSize

Variants == {"maxcho", "downsize"}

(* ------------------------------------------------------------------ *)
(* Sequences and fractions                                             *)
(* ------------------------------------------------------------------ *)

RECURSIVE SumSeq(_)
SumSeq(s) == IF s = <<>> THEN 0 ELSE Head(s) + SumSeq(Tail(s))

RECURSIVE ProdSeq(_)
ProdSeq(s) == IF s = <<>> THEN 1 ELSE Head(s) * ProdSeq(Tail(s))

RECURSIVE Gcd(_, _)
Gcd(a, b) == IF b = 0 THEN a ELSE Gcd(b, a % b)

\* A fraction in lowest terms.
Frac(n, d) == LET g == Gcd(n, d) IN <<n \div g, d \div g>>

SeqMax(s) == CHOOSE x \in {s[i] : i \in DOMAIN s} : \A j \in DOMAIN s : s[j] <= x

\* All boolean rows of length n.
BoolRows(n) == [1..n -> BOOLEAN]

\* tensor.sum() of a boolean [batch][n] tensor: the number of true entries.
CountTrue(m) == SumSeq([b \in DOMAIN m |->
                    Cardinality({i \in DOMAIN m[b] : m[b][i]})])

\* tensor.T of a two-dimensional tensor (rows of equal length).
Transpose(m) == IF m = <<>> THEN <<>>
                ELSE [j \in DOMAIN m[1] |-> [i \in DOMAIN m |-> m[i][j]]]

\* Mutant: the second tensor comes first.
CatSwapped(a, b) == [r \in DOMAIN a |-> b[r] \o a[r]]

\* torch.cat([a, b], dim=1) of two [batch][.] tensors.
Cat(a, b) == [r \in DOMAIN a |-> a[r] \o b[r]]

\* Broadcasting along the last dimension, as torch.where applies it to two
\* [batch][.] tensors: the widths are equal or one of them is 1, and an
\* operand of width 1 is read at its only entry for every index.
Broadcasts(a, b) ==
    \A r \in DOMAIN a : Len(a[r]) = Len(b[r]) \/ Len(a[r]) = 1 \/ Len(b[r]) = 1
BroadcastLen(x, y) == IF Len(x) >= Len(y) THEN Len(x) ELSE Len(y)
At(row, i) == row[IF Len(row) = 1 THEN 1 ELSE i]

(* ------------------------------------------------------------------ *)
(* torch.split along dim 1                                             *)
(* ------------------------------------------------------------------ *)

\* The offset of segment c in a row cut into segments of the given sizes.
Offset(sizes, c) == SumSeq(SubSeq(sizes, 1, c - 1))

\* One row cut into its segments.
SplitRow(row, sizes) ==
    [c \in DOMAIN sizes |->
        SubSeq(row, Offset(sizes, c) + 1, Offset(sizes, c) + sizes[c])]

\* torch.split(t, sizes, dim=1): a tuple of [batch][sizes[c]] tensors.
Split(t, sizes) ==
    [c \in DOMAIN sizes |-> [b \in DOMAIN t |-> SplitRow(t[b], sizes)[c]]]

\* torch.split raises unless the sizes add up to the width of the tensor.
CanSplit(t, sizes) == \A b \in DOMAIN t : Len(t[b]) = SumSeq(sizes)

\* nvec.tolist() and nvec.tolist()[1:].
splits == NVec
ParamSplits == Tail(NVec)
SumNVec == SumSeq(NVec)
K1 == Len(NVec)

(* ------------------------------------------------------------------ *)
(* The policy network (an external collaborator)                       *)
(* ------------------------------------------------------------------ *)

\* The values the network parameters can take (agent.state_dict()): 0 is the
\* initialisation, optimizer.step() may move them to any value.
MaxParam == 1
ParamVals == 0..MaxParam

\* The observations the environment can show for one environment: two
\* distinct ones, told apart by the network.
ObsVals == {0, 1}

\* self.actor(self.forward(obs)) for one observation: a deterministic function
\* of the parameters and the observation, one logit per entry of nvec.
Actor(p, o) == [i \in 1..SumNVec |-> ((p + 1) * (i + o)) % (MaxLogit + 1)]

\* The logits of a batch of observations: [batch][sum(nvec)].
Logits(p, x) == [b \in DOMAIN x |-> Actor(p, x[b])]

(* ------------------------------------------------------------------ *)
(* CategoricalMasked                                                   *)
(* ------------------------------------------------------------------ *)

\* Mutant: the mask is not applied.
MaskedLogitsUnmasked(lg, msk) == lg

\* Mutant: the mask is applied inverted.
MaskedLogitsInverted(lg, msk) ==
    [i \in DOMAIN lg |-> IF msk[i] THEN Sentinel ELSE lg[i]]

\* torch.where(masks, logits, -1e8) on one row.
MaskedLogits(lg, msk) ==
    [i \in 1..BroadcastLen(lg, msk) |-> IF At(msk, i) THEN At(lg, i) ELSE Sentinel]

\* Mutant: the weight of the sentinel does not underflow.
WeightsNoUnderflow(ml) ==
    LET mx == SeqMax(ml)
    IN  [i \in DOMAIN ml |->
            IF mx - ml[i] > MaxLogit THEN 1 ELSE 2 ^ (ml[i] - mx + MaxLogit + 1)]

\* The softmax weights of one row of logits, as Categorical normalises them:
\* exp(logit - max).  A gap to the maximum wider than any gap between two
\* network logits is the gap to the sentinel, whose exp underflows to 0.
Weights(ml) ==
    LET mx == SeqMax(ml)
    IN  [i \in DOMAIN ml |->
            IF mx - ml[i] > MaxLogit THEN 0 ELSE 2 ^ (ml[i] - mx + MaxLogit)]

\* probs of one row: exact fractions.
Probs(ml) ==
    LET w == Weights(ml)
    IN  [i \in DOMAIN ml |-> Frac(w[i], SumSeq(w))]

\* The indices sample() can return for one row: those of positive probability.
Support(ml) == {i - 1 : i \in {j \in DOMAIN ml : Weights(ml)[j] > 0}}

\* CategoricalMasked.__init__ over a batch: the distribution is its masked
\* logits together with the masks it was given (kept by the downsize variant).
CategoricalMasked(logits, masks) ==
    [logits |-> [b \in DOMAIN logits |-> MaskedLogits(logits[b], masks[b])],
     masks  |-> masks]

\* Categorical.sample(): every batch of draws the distribution can produce.
SampleSet(cat) ==
    {s \in [DOMAIN cat.logits -> 0..(SumNVec - 1)] :
        \A b \in DOMAIN cat.logits : s[b] \in Support(cat.logits[b])}

\* Categorical.log_prob(a) per batch row, as the probability it is the log of.
\* An index outside the row makes torch.gather raise; the model returns the
\* impossible probability <<0, 1>> for it.
LogProb(cat, a) ==
    [b \in DOMAIN cat.logits |->
        IF a[b] + 1 \in DOMAIN cat.logits[b]
        THEN Probs(cat.logits[b])[a[b] + 1] ELSE <<0, 1>>]

\* The terms of -sum(p * log p) that are not zero, per batch row, as the set of
\* <<index, p>> they come from: p * log p is zero exactly when p is 0 or 1.
EntropyTerms(ml, included) ==
    {<<i - 1, Probs(ml)[i]>> : i \in {j \in included :
        Probs(ml)[j] # <<0, 1>> /\ Probs(ml)[j] # <<1, 1>>}}

\* Categorical.entropy(), the override of ppo_diverse_maxcho and ppo_maxcho_v2:
\* the sum runs over every index.
EntropyUnmasked(cat) ==
    [b \in DOMAIN cat.logits |->
        EntropyTerms(cat.logits[b], DOMAIN cat.logits[b])]

\* CategoricalMasked.entropy() of ppo_diverse_downsize: p * log p is replaced
\* by 0 wherever the mask is false.
EntropyMasked(cat) ==
    [b \in DOMAIN cat.logits |->
        EntropyTerms(cat.logits[b],
                     {i \in DOMAIN cat.logits[b] : At(cat.masks[b], i)})]

\* Categorical(logits=...): the distribution without a mask (the base class;
\* the downsize class with its default masks=[]).
Categorical(logits) == [logits |-> logits, masks |-> <<>>]

\* entropy() of the variant's class; the downsize class falls back to the
\* base class when it holds no mask (len(self.masks) == 0).
Entropy(v, cat) ==
    IF v = "downsize" /\ Len(cat.masks) # 0
    THEN EntropyMasked(cat) ELSE EntropyUnmasked(cat)

\* Mutant: only the source component is scored.
SumLogProbsFirstOnly(lps, B) == [b \in 1..B |-> lps[1][b]]

\* torch.stack(rows).sum(0) of per-component log-probabilities: the log of the
\* product of the component probabilities, per batch row.
SumLogProbs(lps, B) ==
    [b \in 1..B |->
        Frac(ProdSeq([c \in DOMAIN lps |-> lps[c][b][1]]),
             ProdSeq([c \in DOMAIN lps |-> lps[c][b][2]]))]

\* torch.stack(rows).sum(0) of per-component entropies, per batch row: the
\* terms of every component, in component order.
SumEntropies(ents, B) == [b \in 1..B |-> [c \in DOMAIN ents |-> ents[c][b]]]

\* Mutant: the components are stacked along dim 1, one row per batch element.
StackBatchFirst(acts) == Transpose(acts)

\* torch.stack(acts): the [k+1][batch] tensor whose rows are the components.
Stack(acts) == [c \in DOMAIN acts |-> acts[c]]

\* The float buffer entry of a mask bit and tensor.bool() / BoolTensor back.
ToFloat(bit) == IF bit THEN 1 ELSE 0
ToBool(x) == x # 0
MaskToFloat(m) == [b \in DOMAIN m |-> [i \in DOMAIN m[b] |-> ToFloat(m[b][i])]]
MaskToBool(m) == [b \in DOMAIN m |-> [i \in DOMAIN m[b] |-> ToBool(m[b][i])]]

(* ------------------------------------------------------------------ *)
(* State                                                               *)
(* ------------------------------------------------------------------ *)

VARIABLES
    variant,               \* which script runs: its Agent.get_action and loop
    params,                \* agent.state_dict(): the policy parameters
    target_agent,          \* the snapshot of the agent target_agent holds, -1 if none
    pc,                    \* the position of main() / train()
    update, step,          \* the loop counters of the update and rollout loops
    start, inds,           \* the minibatch loop: its offset and the shuffled indices
    epoch,                 \* i_epoch_pi
    next_obs,              \* the observation the environment returned last
    obs, actions,          \* the rollout buffers, [num_steps][num_envs]...
    logprobs,
    invalid_action_masks,
    ga,                    \* the frame of the running Agent.get_action call
    envCalls,              \* the queries that call has sent to envs.vec_client
    err,                   \* the exception that ended the program, "" if none
    args,                  \* the command-line flags the loop branches on
    mon,                   \* a VecMonitor wrapper and what its last call returned
    run,                   \* the step and update counters of main() across restarts
    early,                 \* the early-stopping window of main()
    mb,                    \* one epoch's cut of the batch into minibatches
    wrap,                  \* an AttackPowerOneHotWrapper and the observation it extends
    dist                   \* a distribution object used on its own, outside get_action

loopVars == <<update, step, start, inds, epoch>>
bufVars == <<obs, actions, logprobs, invalid_action_masks>>
vars == <<variant, params, target_agent, pc, loopVars, next_obs, bufVars, ga,
          envCalls, err, args, dist, mon, run, early, mb, wrap>>

\* The components that are exercised on their own, outside the training loop.
compVars == <<mon, run, early, mb, wrap>>

\* The variables of the training loop and of a lone distribution.
mainVars == <<variant, params, target_agent, pc, loopVars, next_obs, bufVars, ga,
              envCalls, err, args, dist>>

\* No get_action call is running.
Idle == [pc |-> "idle"]

\* --kle-stop and --kle-rollback as argparse leaves them when not given.
DefaultArgs == [kle_stop |-> FALSE, kle_rollback |-> FALSE]

\* No VecMonitor is exercised on its own.
NoMonitor == [pc |-> "none"]

\* A component that is not exercised.
Absent == [pc |-> "none"]

\* No component is exercised on its own.
NoComponents ==
    /\ mon = NoMonitor
    /\ run = Absent
    /\ early = Absent
    /\ mb = Absent
    /\ wrap = Absent

\* No distribution object is in use on its own.
NoDist == [pc |-> "none"]

\* The frame of a call that has computed its logits (lines 402-406).
Frame(mode, x, action, masks) ==
    [pc |-> "entered", mode |-> mode, x |-> x, B |-> Len(x),
     logits |-> Logits(params, x),
     split_logits |-> Split(Logits(params, x), splits),
     source_mask |-> <<>>, src_act |-> <<>>, param_mask |-> <<>>,
     acts |-> <<>>, action |-> action, invalid_action_masks |-> masks,
     cats |-> <<>>, logprob |-> <<>>, entropy |-> <<>>]

Zeros(n) == [i \in 1..n |-> 0]

Init ==
    /\ variant \in Variants
    /\ params = 0
    /\ target_agent = -1
    /\ pc = "rollout"
    /\ update = 1
    /\ step = 0
    /\ start = 0
    /\ inds = [i \in 1..BatchSize |-> i - 1]
    /\ epoch = 0
    /\ next_obs \in [1..NumEnvs -> ObsVals]
    /\ obs = [t \in 1..NumSteps |-> Zeros(NumEnvs)]
    /\ actions = [t \in 1..NumSteps |-> [e \in 1..NumEnvs |-> Zeros(K1)]]
    /\ logprobs = [t \in 1..NumSteps |-> [e \in 1..NumEnvs |-> <<1, 1>>]]
    /\ invalid_action_masks =
           [t \in 1..NumSteps |-> [e \in 1..NumEnvs |-> Zeros(SumNVec)]]
    /\ ga = Idle
    /\ envCalls = <<>>
    /\ err = ""
    /\ args = DefaultArgs
    /\ dist = NoDist
    /\ NoComponents

\* An exception leaves get_action and, uncaught, ends the program.
Raise(what) ==
    /\ ga' = [ga EXCEPT !.pc = "raised"]
    /\ err' = what
    /\ pc' = "error"

(* ------------------------------------------------------------------ *)
(* Agent.get_action, sampling mode                                     *)
(* ------------------------------------------------------------------ *)

\* envs.vec_client.getUnitLocationMasks(), reshaped to [batch][n_0]: the
\* environment may answer with any mask.
SourceMaskAnswers(B) == [1..B -> BoolRows(NVec[1])]

\* envs.vec_client.getUnitActionMasks(units), reshaped to [batch][sum(nvec[1:])].
ActionMaskAnswers(B) == [1..B -> BoolRows(SumSeq(ParamSplits))]

\* The all-false test of the whole tensor that guards sampling in
\* ppo_diverse_maxcho and ppo_maxcho_v2; ppo_diverse_downsize has none.
RaisesOnEmpty(v, mask) == v = "maxcho" /\ CountTrue(mask) = 0

\* Mutant: the source mask is queried whatever the mode.
GetSourceMaskAnyMode ==
    /\ ga.pc = "entered"
    /\ \E m \in SourceMaskAnswers(ga.B) :
          ga' = [ga EXCEPT !.pc = "source_mask", !.source_mask = m]
    /\ envCalls' = Append(envCalls, [op |-> "getUnitLocationMasks"])
    /\ UNCHANGED <<compVars, args, dist, variant, params, target_agent, pc, loopVars, next_obs,
                   bufVars, err>>

\* _get_source_mask: the first round trip to the environment.
GetSourceMask ==
    /\ ga.pc = "entered" /\ ga.mode = "sample"
    /\ \E m \in SourceMaskAnswers(ga.B) :
          ga' = [ga EXCEPT !.pc = "source_mask", !.source_mask = m]
    /\ envCalls' = Append(envCalls, [op |-> "getUnitLocationMasks"])
    /\ UNCHANGED <<compVars, args, dist, variant, params, target_agent, pc, loopVars, next_obs,
                   bufVars, err>>

\* The source check, the source distribution and its sample.  torch.where in
\* the constructor raises when the mask cannot be broadcast to the logits.
SampleSource ==
    /\ ga.pc = "source_mask"
    /\ IF RaisesOnEmpty(variant, ga.source_mask)
       THEN Raise("source_mask all False")
       ELSE IF ~Broadcasts(ga.split_logits[1], ga.source_mask)
       THEN Raise("torch.where: sizes must match")
       ELSE /\ \E s \in SampleSet(CategoricalMasked(ga.split_logits[1],
                                                     ga.source_mask)) :
                  ga' = [ga EXCEPT !.pc = "src_sampled", !.src_act = s]
            /\ UNCHANGED <<pc, err>>
    /\ UNCHANGED <<compVars, args, dist, variant, params, target_agent, loopVars, next_obs, bufVars,
                   envCalls>>

\* Mutant: unit 0 is passed for every environment.
ChosenUnitsFirst(f) == [b \in 1..f.B |-> 0]

\* src_act.cpu().numpy(): the units the parameter masks are asked for.
ChosenUnits(f) == f.src_act

\* Mutant: the parameter masks are queried before the source is sampled.
GetActionMaskEarly ==
    /\ ga.pc = "source_mask"
    /\ \E m \in ActionMaskAnswers(ga.B) :
          ga' = [ga EXCEPT !.pc = "param_mask", !.param_mask = m]
    /\ envCalls' = Append(envCalls,
                          [op |-> "getUnitActionMasks",
                           units |-> [b \in 1..ga.B |-> 0]])
    /\ UNCHANGED <<compVars, args, dist, variant, params, target_agent, pc, loopVars, next_obs,
                   bufVars, err>>

\* _get_action_mask(src_act): the second round trip, with the chosen units.
GetActionMask ==
    /\ ga.pc = "src_sampled"
    /\ \E m \in ActionMaskAnswers(ga.B) :
          ga' = [ga EXCEPT !.pc = "param_mask", !.param_mask = m]
    /\ envCalls' = Append(envCalls,
                          [op |-> "getUnitActionMasks", units |-> ChosenUnits(ga)])
    /\ UNCHANGED <<compVars, args, dist, variant, params, target_agent, pc, loopVars, next_obs,
                   bufVars, err>>

\* Every tuple of parameter samples: one batch of draws per parameter
\* component, each from that component's logits under its mask segment.
ParamSamples(split_logits, param_mask) ==
    LET split_param_masks == Split(param_mask, ParamSplits)
    IN  {ps \in [DOMAIN ParamSplits -> [DOMAIN param_mask -> 0..(SumNVec - 1)]] :
            \A c \in DOMAIN ParamSplits :
                ps[c] \in SampleSet(CategoricalMasked(split_logits[c + 1],
                                                      split_param_masks[c]))}

\* Mutant: the source component is appended after the parameter components.
JointActsSourceLast(src_act, ps) == ps \o <<src_act>>

\* acts = [src_act] followed by the appended parameter samples, in the order
\* of the segments.
JointActs(src_act, ps) == <<src_act>> \o ps

\* The parameter check, the split of the parameter mask (which raises unless
\* its width is sum(nvec[1:])), the parameter samples, the joint action and
\* the mask.
SampleParams ==
    /\ ga.pc = "param_mask"
    /\ IF RaisesOnEmpty(variant, ga.param_mask)
       THEN Raise("param_mask all False")
       ELSE IF ~CanSplit(ga.param_mask, ParamSplits)
       THEN Raise("split_with_sizes: sizes must sum to the width")
       ELSE /\ \E ps \in ParamSamples(ga.split_logits, ga.param_mask) :
                  LET acts == JointActs(ga.src_act, ps)
                  IN  ga' = [ga EXCEPT
                               !.pc = "sampled",
                               !.acts = acts,
                               !.action = Stack(acts),
                               !.invalid_action_masks =
                                   Cat(ga.source_mask, ga.param_mask)]
            /\ UNCHANGED <<pc, err>>
    /\ UNCHANGED <<compVars, args, dist, variant, params, target_agent, loopVars, next_obs, bufVars,
                   envCalls>>

(* ------------------------------------------------------------------ *)
(* Agent.get_action, the scoring both modes end with                   *)
(* ------------------------------------------------------------------ *)

\* get_action's scoring for an action space of the given component sizes:
\* split the logits and the mask per nvec, build one distribution per
\* component, add up the log-probabilities of the components of the action.
CatsOf(sizes, logits, masks) ==
    [c \in DOMAIN sizes |->
        CategoricalMasked(Split(logits, sizes)[c], Split(masks, sizes)[c])]
JointLogProbOf(sizes, logits, masks, action) ==
    SumLogProbs([c \in DOMAIN sizes |->
                    LogProb(CatsOf(sizes, logits, masks)[c], action[c])],
                Len(logits))

\* The distributions of all components, built from the mask split per nvec.
Cats(split_logits, masks) ==
    LET split_masks == Split(masks, splits)
    IN  [c \in DOMAIN splits |-> CategoricalMasked(split_logits[c], split_masks[c])]

\* The joint log-probability of an action [k+1][batch] under the distributions.
JointLogProb(cats, action, B) ==
    SumLogProbs([c \in DOMAIN cats |-> LogProb(cats[c], action[c])], B)

\* The joint entropy of the distributions.
JointEntropy(v, cats, B) ==
    SumEntropies([c \in DOMAIN cats |-> Entropy(v, cats[c])], B)

\* The distributions the downsize variant scores a sample with: the ones it
\* sampled from (multi_categoricals), built from the two masks as queried.
SampledCats(split_logits, source_mask, param_mask) ==
    LET split_suam == Split(param_mask, ParamSplits)
    IN  [c \in DOMAIN splits |->
            IF c = 1 THEN CategoricalMasked(split_logits[1], source_mask)
            ELSE CategoricalMasked(split_logits[c], split_suam[c - 1])]

\* Mutant: evaluation ignores the provided mask (every index legal).
MaskOfIgnored(f) ==
    IF f.mode = "eval"
    THEN [b \in DOMAIN f.invalid_action_masks |->
             [i \in DOMAIN f.invalid_action_masks[b] |-> TRUE]]
    ELSE f.invalid_action_masks

\* The mask as the distributions take it: a provided mask is a slice of the
\* float rollout buffer and is converted (msk.bool(), masks.type(BoolTensor));
\* a mask just queried is boolean already.
MaskOf(f) == IF f.mode = "eval" THEN MaskToBool(f.invalid_action_masks)
             ELSE f.invalid_action_masks

\* The distributions get_action scores the action with.
ScoringCats(v, f) ==
    IF v = "downsize" /\ f.mode = "sample"
    THEN SampledCats(f.split_logits, f.source_mask, f.param_mask)
    ELSE Cats(f.split_logits, MaskOf(f))

\* Mutant: the four-tuple carries the action transposed.
ReturnedActionTransposed(v, f) ==
    LET cats == ScoringCats(v, f)
    IN  [f EXCEPT !.pc = "returned",
                  !.cats = cats,
                  !.action = Transpose(f.action),
                  !.logprob = JointLogProb(cats, f.action, f.B),
                  !.entropy = JointEntropy(v, cats, f.B)]

\* The frame at the return statement: the distributions, the joint
\* log-probability and the joint entropy are computed; the action and the mask
\* are the ones sampled or provided.
Returned(v, f) ==
    LET cats == ScoringCats(v, f)
    IN  [f EXCEPT !.pc = "returned",
                  !.cats = cats,
                  !.logprob = JointLogProb(cats, f.action, f.B),
                  !.entropy = JointEntropy(v, cats, f.B)]

\* Whether scoring splits the mask per nvec: always, but for a sample of the
\* downsize variant, which keeps the distributions it sampled from.
SplitsMask(v, f) == ~(v = "downsize" /\ f.mode = "sample")

\* The end of get_action in both modes: build the distributions from the
\* (returned or provided) mask, score the (sampled or provided) action, return
\* the four-tuple (action, logprob, entropy, invalid_action_masks).  The split
\* of the mask raises unless its width is sum(nvec).
Score ==
    /\ \/ ga.pc = "sampled"
       \/ ga.pc = "entered" /\ ga.mode = "eval"
    /\ IF SplitsMask(variant, ga) /\ ~CanSplit(ga.invalid_action_masks, splits)
       THEN Raise("split_with_sizes: sizes must sum to the width")
       ELSE /\ ga' = Returned(variant, ga)
            /\ UNCHANGED <<pc, err>>
    /\ UNCHANGED <<compVars, args, dist, variant, params, target_agent, loopVars, next_obs,
                   bufVars, envCalls>>

(* ------------------------------------------------------------------ *)
(* main() / train(): the rollout                                       *)
(* ------------------------------------------------------------------ *)

\* envs.step(action.T): the environment may show any observation next.
StepAnswers == [1..NumEnvs -> ObsVals]

\* Mutant: the environment is stepped again before get_action is called, so
\* the masks are queried in another state than the one observed.
RolloutCallStepsFirst ==
    /\ pc = "rollout"
    /\ step < NumSteps
    /\ obs' = [obs EXCEPT ![step + 1] = next_obs]
    /\ ga' = Frame("sample", next_obs, <<>>, <<>>)
    /\ envCalls' = <<>>
    /\ pc' = "sampling"
    /\ next_obs' \in StepAnswers
    /\ UNCHANGED <<compVars, args, dist, variant, params, target_agent, loopVars,
                   actions, logprobs, invalid_action_masks, err>>

\* Lines 503-511: record the observation and call get_action on it.
RolloutCall ==
    /\ pc = "rollout"
    /\ step < NumSteps
    /\ obs' = [obs EXCEPT ![step + 1] = next_obs]
    /\ ga' = Frame("sample", next_obs, <<>>, <<>>)
    /\ envCalls' = <<>>
    /\ pc' = "sampling"
    /\ UNCHANGED <<compVars, args, dist, variant, params, target_agent, loopVars, next_obs,
                   actions, logprobs, invalid_action_masks, err>>

\* Lines 509-518: store what get_action returned and step the environment.
\* The assignment into the mask buffer raises when the returned mask does not
\* have the width of the buffer, sum(nvec).
RolloutStore ==
    /\ pc = "sampling"
    /\ ga.pc = "returned"
    /\ ga' = Idle
    /\ envCalls' = <<>>
    /\ IF ~CanSplit(ga.invalid_action_masks, splits)
       THEN /\ err' = "copy_: shape mismatch"
            /\ pc' = "error"
            /\ UNCHANGED <<invalid_action_masks, actions, logprobs, next_obs, step>>
       ELSE /\ invalid_action_masks' =
                   [invalid_action_masks EXCEPT
                       ![step + 1] = MaskToFloat(ga.invalid_action_masks)]
            /\ actions' = [actions EXCEPT ![step + 1] = Transpose(ga.action)]
            /\ logprobs' = [logprobs EXCEPT ![step + 1] = ga.logprob]
            /\ next_obs' \in StepAnswers
            /\ step' = step + 1
            /\ pc' = IF step + 1 < NumSteps THEN "rollout" ELSE "optimize"
            /\ err' = err
    /\ UNCHANGED <<compVars, args, dist, variant, params, target_agent, update, start, inds, epoch,
                   obs>>

(* ------------------------------------------------------------------ *)
(* main() / train(): the optimisation                                  *)
(* ------------------------------------------------------------------ *)

\* x.reshape((-1,) + ...) of a [num_steps][num_envs] buffer: flat index j
\* (0-based) is step j // num_envs, environment j % num_envs.
Flatten(buf) ==
    [j \in 1..(NumSteps * NumEnvs) |->
        buf[((j - 1) \div NumEnvs) + 1][((j - 1) % NumEnvs) + 1]]

\* t[minibatch_ind]: the rows of a flat tensor at the given 0-based indices.
Take(flat, ind) == [r \in DOMAIN ind |-> flat[ind[r] + 1]]

\* inds[start:end]: a slice ends at the end of the array.
Slice(a, from, to) ==
    SubSeq(a, from + 1, IF to < Len(a) THEN to ELSE Len(a))

\* The orders np.random.shuffle can leave inds in.
Shuffles == {p \in [1..BatchSize -> 0..(BatchSize - 1)] :
                \A i, j \in 1..BatchSize : i # j => p[i] # p[j]}

\* minibatch_ind = inds[start:end] with end = start + args.minibatch_size.
minibatch_ind == Slice(inds, start, start + MinibatchSize)

\* Lines 583-587: the target agent is constructed and inds laid out.  train()
\* of ppo_diverse_downsize constructs it as Agent(), without the two arguments
\* Agent.__init__ requires: a TypeError.
BeginOptimization ==
    /\ pc = "optimize"
    /\ IF variant = "downsize"
       THEN /\ err' = "Agent() missing arguments"
            /\ pc' = "error"
            /\ UNCHANGED <<target_agent, inds, epoch>>
       ELSE /\ target_agent' = -1
            /\ inds' = [i \in 1..BatchSize |-> i - 1]
            /\ epoch' = 0
            /\ pc' = "epoch"
            /\ err' = err
    /\ UNCHANGED <<compVars, args, dist, variant, params, update, step, start, next_obs, bufVars,
                   ga, envCalls>>

\* Lines 588-590: shuffle the indices and snapshot the agent.
BeginEpoch ==
    /\ pc = "epoch"
    /\ epoch < UpdateEpochs
    /\ inds' \in Shuffles
    /\ target_agent' = params
    /\ start' = 0
    /\ pc' = "minibatch"
    /\ UNCHANGED <<compVars, args, dist, variant, params, update, step, epoch, next_obs, bufVars,
                   ga, envCalls, err>>

\* Mutant: taking the minibatch and calling get_action on it moves the
\* parameters.
MinibatchCallMovesParams ==
    /\ pc = "minibatch"
    /\ start < BatchSize
    /\ ga' = Frame("eval",
                   Take(Flatten(obs), minibatch_ind),
                   Transpose(Take(Flatten(actions), minibatch_ind)),
                   Take(Flatten(invalid_action_masks), minibatch_ind))
    /\ envCalls' = <<>>
    /\ pc' = "evaluating"
    /\ params' \in ParamVals
    /\ UNCHANGED <<compVars, args, dist, variant, target_agent, loopVars, next_obs, bufVars, err>>

\* Lines 591-604: take the next minibatch and re-evaluate its stored actions
\* under their stored masks.
MinibatchCall ==
    /\ pc = "minibatch"
    /\ start < BatchSize
    /\ ga' = Frame("eval",
                   Take(Flatten(obs), minibatch_ind),
                   Transpose(Take(Flatten(actions), minibatch_ind)),
                   Take(Flatten(invalid_action_masks), minibatch_ind))
    /\ envCalls' = <<>>
    /\ pc' = "evaluating"
    /\ UNCHANGED <<compVars, args, dist, variant, params, target_agent, loopVars, next_obs, bufVars, err>>

\* Lines 605-638: the loss and optimizer.step(), which may leave the
\* parameters at any value; then the next minibatch or the end of the epoch.
OptimizerStep ==
    /\ pc = "evaluating"
    /\ ga.pc = "returned"
    /\ params' \in ParamVals
    /\ start' = start + MinibatchSize
    /\ ga' = Idle
    /\ IF start + MinibatchSize < BatchSize
       THEN pc' = "minibatch" /\ epoch' = epoch
       ELSE pc' = "epoch_end" /\ epoch' = epoch + 1
    /\ UNCHANGED <<compVars, args, dist, variant, target_agent, update, step, inds, next_obs,
                   bufVars, envCalls, err>>

\* Lines 640-654, after the minibatches of an epoch.  With --kle-stop the
\* epoch loop is left when the last approx_kl exceeds target_kl (either may be
\* the case).  With --kle-rollback the last minibatch is re-evaluated by
\* get_action(b_obs, b_actions, b_masks, envs): four positional arguments,
\* which get_action of ppo_diverse_maxcho and ppo_maxcho_v2 does not take, a
\* TypeError; where the call is accepted (ppo_diverse_downsize) the agent is
\* set back to target_agent when the log-probabilities dropped too far.
EpochEnd ==
    /\ pc = "epoch_end"
    /\ \E exceeds \in BOOLEAN :
          IF args.kle_stop /\ exceeds
          THEN /\ pc' = "update_end"
               /\ UNCHANGED <<params, err>>
          ELSE IF args.kle_rollback /\ variant = "maxcho"
          THEN /\ err' = "get_action() takes from 2 to 4 positional arguments"
               /\ pc' = "error"
               /\ UNCHANGED params
          ELSE IF args.kle_rollback /\ exceeds
          THEN /\ params' = target_agent
               /\ pc' = "update_end"
               /\ UNCHANGED err
          ELSE /\ pc' = IF epoch < UpdateEpochs THEN "epoch" ELSE "update_end"
               /\ UNCHANGED <<params, err>>
    /\ UNCHANGED <<compVars, args, dist, variant, target_agent, loopVars, next_obs, bufVars,
                   ga, envCalls>>

\* Line 492: the next update, or the end of training.
EndUpdate ==
    /\ pc = "update_end"
    /\ update' = update + 1
    /\ step' = 0
    /\ pc' = IF update + 1 <= NumUpdates THEN "rollout" ELSE "done"
    /\ UNCHANGED <<compVars, args, dist, variant, params, target_agent, start, inds, epoch, next_obs,
                   bufVars, ga, envCalls, err>>

Next ==
    \/ RolloutCall
    \/ GetSourceMask
    \/ SampleSource
    \/ GetActionMask
    \/ SampleParams
    \/ Score
    \/ RolloutStore
    \/ BeginOptimization
    \/ BeginEpoch
    \/ MinibatchCall
    \/ OptimizerStep
    \/ EpochEnd
    \/ EndUpdate

Spec == Init /\ [][Next]_vars

\* The same program started with any combination of the two flags.
ArgSets == [kle_stop : BOOLEAN, kle_rollback : BOOLEAN]

InitArgs ==
    /\ variant \in Variants
    /\ args \in ArgSets
    /\ params = 0
    /\ target_agent = -1
    /\ pc = "rollout"
    /\ update = 1
    /\ step = 0
    /\ start = 0
    /\ inds = [i \in 1..BatchSize |-> i - 1]
    /\ epoch = 0
    /\ next_obs \in [1..NumEnvs -> ObsVals]
    /\ obs = [t \in 1..NumSteps |-> Zeros(NumEnvs)]
    /\ actions = [t \in 1..NumSteps |-> [e \in 1..NumEnvs |-> Zeros(K1)]]
    /\ logprobs = [t \in 1..NumSteps |-> [e \in 1..NumEnvs |-> <<1, 1>>]]
    /\ invalid_action_masks =
           [t \in 1..NumSteps |-> [e \in 1..NumEnvs |-> Zeros(SumNVec)]]
    /\ ga = Idle
    /\ envCalls = <<>>
    /\ err = ""
    /\ dist = NoDist
    /\ NoComponents

SpecArgs == InitArgs /\ [][Next]_vars

(* ------------------------------------------------------------------ *)
(* One rollout call against an environment whose masks may be misshaped *)
(* ------------------------------------------------------------------ *)

\* The widths reshape(batch, -1) can give a mask that should have width n:
\* the environment decides the width, here off by one either way.
OtherWidths(n) == {w \in {n - 1, n + 1} : w >= 1}

MisshapedSourceMaskAnswers(B) ==
    UNION {[1..B -> BoolRows(w)] : w \in OtherWidths(NVec[1])}
MisshapedActionMaskAnswers(B) ==
    UNION {[1..B -> BoolRows(w)] : w \in OtherWidths(SumSeq(ParamSplits))}

\* _get_source_mask when the environment answers with another width than n_0.
GetSourceMaskMisshaped ==
    /\ ga.pc = "entered" /\ ga.mode = "sample"
    /\ \E m \in MisshapedSourceMaskAnswers(ga.B) :
          ga' = [ga EXCEPT !.pc = "source_mask", !.source_mask = m]
    /\ envCalls' = Append(envCalls, [op |-> "getUnitLocationMasks"])
    /\ UNCHANGED <<compVars, args, dist, variant, params, target_agent, pc, loopVars, next_obs,
                   bufVars, err>>

\* _get_action_mask when the environment answers with another width than
\* sum(nvec[1:]).
GetActionMaskMisshaped ==
    /\ ga.pc = "src_sampled"
    /\ \E m \in MisshapedActionMaskAnswers(ga.B) :
          ga' = [ga EXCEPT !.pc = "param_mask", !.param_mask = m]
    /\ envCalls' = Append(envCalls,
                          [op |-> "getUnitActionMasks", units |-> ChosenUnits(ga)])
    /\ UNCHANGED <<compVars, args, dist, variant, params, target_agent, pc, loopVars, next_obs,
                   bufVars, err>>

NextShape ==
    \/ RolloutCall
    \/ GetSourceMask
    \/ GetSourceMaskMisshaped
    \/ SampleSource
    \/ GetActionMask
    \/ GetActionMaskMisshaped
    \/ SampleParams
    \/ Score
    \/ RolloutStore

SpecShape == Init /\ [][NextShape]_vars

(* ------------------------------------------------------------------ *)
(* A distribution object on its own: construct, sample, score          *)
(* ------------------------------------------------------------------ *)

\* The width of the logits row the distribution is constructed over.
DistLen == 3

\* The arguments of the constructor: any logits row, and any mask row or no
\* mask at all.
DistLogits == [1..DistLen -> 0..MaxLogit]
DistMasks == BoolRows(DistLen) \cup {<<>>}

InitDist ==
    /\ variant \in Variants
    /\ dist \in {[pc |-> "args", logits |-> lg, masks |-> m, cat |-> <<>>,
                  sample |-> <<>>, log_prob |-> <<>>, entropy |-> {}] :
                     lg \in DistLogits, m \in DistMasks}
    /\ params = 0
    /\ target_agent = -1
    /\ pc = "rollout"
    /\ update = 1
    /\ step = 0
    /\ start = 0
    /\ inds = [i \in 1..BatchSize |-> i - 1]
    /\ epoch = 0
    /\ next_obs = Zeros(NumEnvs)
    /\ obs = [t \in 1..NumSteps |-> Zeros(NumEnvs)]
    /\ actions = [t \in 1..NumSteps |-> [e \in 1..NumEnvs |-> Zeros(K1)]]
    /\ logprobs = [t \in 1..NumSteps |-> [e \in 1..NumEnvs |-> <<1, 1>>]]
    /\ invalid_action_masks =
           [t \in 1..NumSteps |-> [e \in 1..NumEnvs |-> Zeros(SumNVec)]]
    /\ ga = Idle
    /\ envCalls = <<>>
    /\ err = ""
    /\ args = DefaultArgs
    /\ NoComponents

\* The constructor, on a batch of one row: masked when a mask is given.
DistConstruct ==
    /\ dist.pc = "args"
    /\ dist' = [dist EXCEPT
                  !.pc = "built",
                  !.cat = IF dist.masks = <<>>
                          THEN Categorical(<<dist.logits>>)
                          ELSE CategoricalMasked(<<dist.logits>>, <<dist.masks>>)]
    /\ UNCHANGED <<compVars, args, variant, params, target_agent, pc, loopVars, next_obs,
                   bufVars, ga, envCalls, err>>

\* sample(): any index the distribution can draw.
DistSample ==
    /\ dist.pc = "built"
    /\ \E s \in SampleSet(dist.cat) :
          dist' = [dist EXCEPT !.pc = "sampled", !.sample = s]
    /\ UNCHANGED <<compVars, args, variant, params, target_agent, pc, loopVars, next_obs,
                   bufVars, ga, envCalls, err>>

\* log_prob() of every index and entropy().
DistScore ==
    /\ dist.pc = "sampled"
    /\ dist' = [dist EXCEPT
                  !.pc = "scored",
                  !.log_prob = [i \in 1..DistLen |-> LogProb(dist.cat, <<i - 1>>)[1]],
                  !.entropy = Entropy(variant, dist.cat)[1]]
    /\ UNCHANGED <<compVars, args, variant, params, target_agent, pc, loopVars, next_obs,
                   bufVars, ga, envCalls, err>>

NextDist ==
    \/ DistConstruct
    \/ DistSample
    \/ DistScore

SpecDist == InitDist /\ [][NextDist]_vars

(* ------------------------------------------------------------------ *)
(* VecMonitor on its own: reset and step_wait over an inner environment *)
(* ------------------------------------------------------------------ *)

\* The scripts that define a VecMonitor.
Scripts == {"maxcho", "downsize", "v2"}

\* The number of calls made on the wrapper.
MonMaxCalls == 4

\* The rewards the inner environment hands out per environment and step.
MonRewards == {-1, 1}

\* The training loop fixed as it starts, while a component runs on its own.
MainIdle ==
    /\ variant = "maxcho"
    /\ params = 0
    /\ target_agent = -1
    /\ pc = "rollout"
    /\ update = 1
    /\ step = 0
    /\ start = 0
    /\ inds = [i \in 1..BatchSize |-> i - 1]
    /\ epoch = 0
    /\ next_obs = Zeros(NumEnvs)
    /\ obs = [t \in 1..NumSteps |-> Zeros(NumEnvs)]
    /\ actions = [t \in 1..NumSteps |-> [e \in 1..NumEnvs |-> Zeros(K1)]]
    /\ logprobs = [t \in 1..NumSteps |-> [e \in 1..NumEnvs |-> <<1, 1>>]]
    /\ invalid_action_masks =
           [t \in 1..NumSteps |-> [e \in 1..NumEnvs |-> Zeros(SumNVec)]]
    /\ ga = Idle
    /\ envCalls = <<>>
    /\ err = ""
    /\ args = DefaultArgs
    /\ dist = NoDist

\* VecMonitor.__init__: no counters yet, no episode counted.  log is what the
\* inner environment has been asked and has answered so far; ret is what the
\* last call on the wrapper returned.
InitMon ==
    /\ MainIdle
    /\ run = Absent /\ early = Absent /\ mb = Absent /\ wrap = Absent
    /\ mon \in {[pc |-> "constructed", script |-> sc, eprets |-> <<>>,
                  eplens |-> <<>>, epcount |-> 0, log |-> <<>>, ret |-> <<>>,
                  err |-> ""] : sc \in Scripts}

\* The info dict the inner environment attaches to an environment.
InnerInfo == [episode |-> <<>>]

\* An element of the returned tuple, tagged with what it is.
Tagged(kind, value) == [kind |-> kind, value |-> value]

\* VecMonitor.reset: the inner reset, then zeroed counters.
MonReset ==
    /\ mon.pc \in {"constructed", "ready"}
    /\ Len(mon.log) < MonMaxCalls
    /\ mon' = [mon EXCEPT
                 !.pc = "ready",
                 !.eprets = Zeros(NumEnvs),
                 !.eplens = Zeros(NumEnvs),
                 !.log = Append(@, [op |-> "reset"]),
                 !.ret = <<Tagged("obs", 0)>>]
    /\ UNCHANGED <<mainVars, run, early, mb, wrap>>

\* Mutant: a counter is kept when its episode ends.
ResetIfDoneNever(counter, done) == counter

\* self.eprets[i] = 0 / self.eplens[i] = 0 inside `if dones[i]`.
ResetIfDone(counter, done) == IF done THEN 0 ELSE counter

\* The order of the tuple step_wait returns: (obs, rews, dones, newinfos),
\* but (obs, rews, newinfos, dones) in ppo_maxcho_v2.
StepWaitReturn(script, rews, dones, newinfos) ==
    IF script = "v2"
    THEN <<Tagged("obs", 0), Tagged("rews", rews),
           Tagged("infos", newinfos), Tagged("dones", dones)>>
    ELSE <<Tagged("obs", 0), Tagged("rews", rews),
           Tagged("dones", dones), Tagged("infos", newinfos)>>

\* VecMonitor.step_wait: the inner step answers with any rewards and done
\* flags; the counters are advanced, and for every environment that is done
\* the episode is attached to its info, counted, and its counters zeroed.
\* Before the first reset the counters are None and `+=` raises TypeError.
MonStepWait ==
    /\ mon.pc \in {"constructed", "ready"}
    /\ Len(mon.log) < MonMaxCalls
    /\ IF mon.pc = "constructed"
       THEN mon' = [mon EXCEPT !.pc = "error",
                               !.err = "unsupported operand: NoneType += ndarray"]
       ELSE \E rews \in [1..NumEnvs -> MonRewards], dones \in [1..NumEnvs -> BOOLEAN] :
              LET eprets == [i \in 1..NumEnvs |-> mon.eprets[i] + rews[i]]
                  eplens == [i \in 1..NumEnvs |-> mon.eplens[i] + 1]
                  newinfos == [i \in 1..NumEnvs |->
                                 IF dones[i]
                                 THEN [InnerInfo EXCEPT
                                         !.episode = <<[r |-> eprets[i],
                                                        l |-> eplens[i]]>>]
                                 ELSE InnerInfo]
              IN  mon' = [mon EXCEPT
                            !.eprets = [i \in 1..NumEnvs |->
                                           ResetIfDone(eprets[i], dones[i])],
                            !.eplens = [i \in 1..NumEnvs |->
                                           ResetIfDone(eplens[i], dones[i])],
                            !.epcount = @ + Cardinality({i \in 1..NumEnvs : dones[i]}),
                            !.log = Append(@, [op |-> "step", rews |-> rews,
                                               dones |-> dones]),
                            !.ret = StepWaitReturn(mon.script, rews, dones, newinfos)]
    /\ UNCHANGED <<mainVars, run, early, mb, wrap>>

NextMon ==
    \/ MonReset
    \/ MonStepWait

SpecMon == InitMon /\ [][NextMon]_vars

(* ------------------------------------------------------------------ *)
(* The counters of main(): global_step and update, across crash-resume  *)
(* ------------------------------------------------------------------ *)

\* num_updates = total_timesteps // batch_size of the runs considered.
RunNumUpdates == 3

\* How often a crashed run is resumed.
MaxResumes == 2

\* The num_envs and num_steps of the runs considered.
RunEnvs == {1, 2}
RunSteps == {1, 2}

\* The scripts with the crash-and-resume logic examined here.
RunScripts == {"maxcho", "v2"}

\* A fresh process: global_step = 0, starting_update = 1, nothing logged and
\* no "charts/update" in the run summary.
InitRun ==
    /\ MainIdle
    /\ mon = NoMonitor /\ early = Absent /\ mb = Absent /\ wrap = Absent
    /\ run \in {[pc |-> "rollout", script |-> sc, num_envs |-> ne,
                  num_steps |-> ns, update |-> 1, step |-> 0, global_step |-> 0,
                  summary |-> <<>>, logged |-> <<>>, resumes |-> 0, err |-> ""] :
                 sc \in RunScripts, ne \in RunEnvs, ns \in RunSteps}

\* args.batch_size = int(args.num_envs * args.num_steps)
RunBatchSize == run.num_envs * run.num_steps

\* One pass of `for step in range(0, args.num_steps)`.
RunRolloutStep ==
    /\ run.pc = "rollout"
    /\ run.step < run.num_steps
    /\ run' = [run EXCEPT !.step = @ + 1,
                          !.global_step = @ + 1 * run.num_envs]
    /\ UNCHANGED <<mainVars, mon, early, mb, wrap>>

\* The rest of the update after its rollout: the early-stopping test may
\* break out of the loop before anything is logged; otherwise the update
\* is written to "charts/update" at global_step and the loop goes on.
RunFinishUpdate ==
    /\ run.pc = "rollout"
    /\ run.step = run.num_steps
    /\ \E stop \in BOOLEAN :
          IF stop
          THEN run' = [run EXCEPT !.pc = "done"]
          ELSE run' = [run EXCEPT
                         !.logged = Append(@, [update |-> run.update,
                                               global_step |-> run.global_step]),
                         !.summary = <<run.update>>,
                         !.update = @ + 1,
                         !.step = 0,
                         !.pc = IF run.update + 1 > RunNumUpdates
                                THEN "done" ELSE "rollout"]
    /\ UNCHANGED <<mainVars, mon, early, mb, wrap>>

\* The process dies while an update is running.
RunCrash ==
    /\ run.pc = "rollout"
    /\ run.resumes < MaxResumes
    /\ run' = [run EXCEPT !.pc = "crashed"]
    /\ UNCHANGED <<mainVars, mon, early, mb, wrap>>

\* A new process with wandb.run.resumed: starting_update is the logged
\* "charts/update" plus one and global_step = starting_update * batch_size.
\* With nothing logged yet, summary.get returns None: ppo_diverse_maxcho adds
\* 1 to it, ppo_maxcho_v2 starts over.
RunResume ==
    /\ run.pc = "crashed"
    /\ IF run.summary = <<>>
       THEN IF run.script = "maxcho"
            THEN run' = [run EXCEPT !.pc = "error",
                                    !.resumes = @ + 1,
                                    !.err = "unsupported operand: NoneType + int"]
            ELSE run' = [run EXCEPT !.pc = "rollout", !.resumes = @ + 1,
                                    !.update = 1, !.step = 0,
                                    !.global_step = 0]
       ELSE LET starting_update == run.summary[1] + 1
            IN  run' = [run EXCEPT
                          !.pc = IF starting_update > RunNumUpdates
                                 THEN "done" ELSE "rollout",
                          !.resumes = @ + 1,
                          !.update = starting_update,
                          !.step = 0,
                          !.global_step = starting_update * RunBatchSize]
    /\ UNCHANGED <<mainVars, mon, early, mb, wrap>>

NextRun ==
    \/ RunRolloutStep
    \/ RunFinishUpdate
    \/ RunCrash
    \/ RunResume

SpecRun == InitRun /\ [][NextRun]_vars

(* ------------------------------------------------------------------ *)
(* The early-stopping window of ppo_diverse_maxcho.main                 *)
(* ------------------------------------------------------------------ *)

\* early_stop_K = 10
early_stop_K == 10

\* early_stop_max_var = 0.05, as the fraction 1 / EarlyStopInvMaxVar.
EarlyStopInvMaxVar == 20

\* The updates a run goes through.
EarlyMaxUpdates == 11

\* The mean rewards rewards.mean() an update can end with.
AvgRewards == {-1, 0, 1}

\* recent_rewards = [] before the loop; seen is every mean reward so far.
InitEarly ==
    /\ MainIdle
    /\ mon = NoMonitor /\ run = Absent /\ mb = Absent /\ wrap = Absent
    /\ early = [pc |-> "running", recent_rewards |-> <<>>, seen |-> <<>>]

\* K * sum(x^2) - sum(x)^2, which is (K * np.std(w))^2 for a window of K.
SumSquares(w) == SumSeq([k \in 1..Len(w) |-> w[k] * w[k]])
ScaledVariance(w) == Len(w) * SumSquares(w) - SumSeq(w) * SumSeq(w)

\* std_r / (mean_r + 1e-8) < early_stop_max_var for a window of integers.
\* The divisor has the sign of the mean, and is positive for a mean of 0:
\* a negative mean makes the quotient at most 0, which is below 0.05; else
\* the test is std < 0.05 * (mean + 1e-8), that is, after squaring,
\* 400 * (K * sum(x^2) - sum(x)^2) <= sum(x)^2 (the 1e-8 admits equality).
EarlyStopTest(w) ==
    IF SumSeq(w) < 0 THEN TRUE
    ELSE EarlyStopInvMaxVar * EarlyStopInvMaxVar * ScaledVariance(w)
            <= SumSeq(w) * SumSeq(w)

\* The early-stopping block at the end of an update: the update's mean
\* reward is appended, the oldest entry dropped beyond K entries, and with
\* exactly K entries the test decides whether the loop is left.
EarlyStopCheck ==
    /\ early.pc = "running"
    /\ Len(early.seen) < EarlyMaxUpdates
    /\ \E avg_reward \in AvgRewards :
          LET appended == Append(early.recent_rewards, avg_reward)
              recent == IF Len(appended) > early_stop_K
                        THEN Tail(appended) ELSE appended
          IN  early' = [pc |-> IF Len(recent) = early_stop_K /\ EarlyStopTest(recent)
                               THEN "stopped" ELSE "running",
                        recent_rewards |-> recent,
                        seen |-> Append(early.seen, avg_reward)]
    /\ UNCHANGED <<mainVars, mon, run, mb, wrap>>

NextEarly == EarlyStopCheck

SpecEarly == InitEarly /\ [][NextEarly]_vars

(* ------------------------------------------------------------------ *)
(* One optimization epoch's minibatches, for any batch geometry         *)
(* ------------------------------------------------------------------ *)

\* The largest --num-envs, --num-steps and --n-minibatch drawn.
MbMaxEnvs == 3
MbMaxSteps == 2
MbMaxMinibatch == 3

\* The orders np.random.shuffle can leave np.arange(n) in.
ShufflesOf(n) == {p \in [1..n -> 0..(n - 1)] :
                    \A i, j \in 1..n : i # j => p[i] # p[j]}

\* set_environment: batch_size = num_envs * num_steps and
\* minibatch_size = batch_size // n_minibatch; inds = np.arange(batch_size).
InitMb ==
    /\ MainIdle
    /\ mon = NoMonitor /\ run = Absent /\ early = Absent /\ wrap = Absent
    /\ mb \in {[pc |-> "epoch", n_minibatch |-> nm,
                 batch_size |-> ne * ns,
                 minibatch_size |-> (ne * ns) \div nm,
                 inds |-> [i \in 1..(ne * ns) |-> i - 1],
                 start |-> 0, minibatches |-> <<>>, err |-> ""] :
                ne \in 1..MbMaxEnvs, ns \in 1..MbMaxSteps, nm \in 1..MbMaxMinibatch}

\* np.random.shuffle(inds), then range(0, batch_size, minibatch_size) is
\* built: a step of 0 raises ValueError.
MbBeginEpoch ==
    /\ mb.pc = "epoch"
    /\ \E p \in ShufflesOf(mb.batch_size) :
          IF mb.minibatch_size = 0
          THEN mb' = [mb EXCEPT !.inds = p, !.pc = "error",
                                !.err = "range() arg 3 must not be zero"]
          ELSE mb' = [mb EXCEPT !.inds = p, !.pc = "minibatch", !.start = 0]
    /\ UNCHANGED <<mainVars, mon, run, early, wrap>>

\* One pass of the loop over start: minibatch_ind = inds[start:end] goes
\* into one parameter update.
MbMinibatch ==
    /\ mb.pc = "minibatch"
    /\ mb' = [mb EXCEPT
                !.minibatches = Append(@, Slice(mb.inds, mb.start,
                                                mb.start + mb.minibatch_size)),
                !.start = @ + mb.minibatch_size,
                !.pc = IF mb.start + mb.minibatch_size < mb.batch_size
                       THEN "minibatch" ELSE "epoch_done"]
    /\ UNCHANGED <<mainVars, mon, run, early, wrap>>

NextMb ==
    \/ MbBeginEpoch
    \/ MbMinibatch

SpecMb == InitMb /\ [][NextMb]_vars

(* ------------------------------------------------------------------ *)
(* AttackPowerOneHotWrapper of ppo_maxcho_v2                            *)
(* ------------------------------------------------------------------ *)

\* damage_bins = [0, 1, 2, 4, 999]
damage_bins == <<0, 1, 2, 4, 999>>

\* self.num_bins = len(damage_bins)
num_bins == Len(damage_bins)

\* The cells batch_size * h * w of an observation.
WrapCells == 2

\* The unit type IDs of the unit table, and the maxDamage values it may give.
TableIDs == {0, 1}
Damages == {0, 3, 1000}

\* What getUnitType() reports for a cell: -1 for no unit, a type of the
\* table, or a type the table does not list.
CellTypes == {-1} \cup TableIDs \cup {2}

\* The observations of the inner environment: per cell one channel.
WrapObs == [1..WrapCells -> {<<0>>, <<1>>}]

\* AttackPowerOneHotWrapper.__init__: id_to_damage from the unit table; call
\* is the last call made on the wrapper.
InitWrap ==
    /\ MainIdle
    /\ mon = NoMonitor /\ run = Absent /\ early = Absent /\ mb = Absent
    /\ wrap \in {[pc |-> "constructed", id_to_damage |-> t, unit_type_map |-> <<>>,
                   obs |-> <<>>, out |-> <<>>, call |-> ""] : t \in [TableIDs -> Damages]}

\* self.id_to_damage.get(utype, 0)
GetDamage(id_to_damage, utype) ==
    IF utype \in DOMAIN id_to_damage THEN id_to_damage[utype] ELSE 0

\* The loop over enumerate(self.damage_bins) from index k (0-based) on: the
\* first k with damage <= thresh, and bin_idx = 0 when the loop runs out.
RECURSIVE BinIdxFrom(_, _, _)
BinIdxFrom(damage, bins, k) ==
    IF k >= Len(bins) THEN 0
    ELSE IF damage <= bins[k + 1] THEN k
    ELSE BinIdxFrom(damage, bins, k + 1)

BinIdx(damage, bins) == BinIdxFrom(damage, bins, 0)

\* _add_attack_onehot: zeros of num_bins channels per cell, a 1.0 at bin_idx
\* for a cell with utype >= 0, concatenated behind the channels of obs.
AddAttackOnehot(id_to_damage, unit_type_map, o) ==
    [c \in 1..Len(o) |->
        o[c] \o [k \in 1..num_bins |->
                   IF /\ unit_type_map[c] >= 0
                      /\ k = BinIdx(GetDamage(id_to_damage, unit_type_map[c]),
                                   damage_bins) + 1
                   THEN 1 ELSE 0]]

\* reset: the inner reset's observation, extended.
WrapReset ==
    /\ wrap.pc \in {"constructed", "ready"}
    /\ \E o \in WrapObs, u \in [1..WrapCells -> CellTypes] :
          wrap' = [wrap EXCEPT !.pc = "ready", !.call = "reset",
                               !.obs = o, !.unit_type_map = u,
                               !.out = AddAttackOnehot(wrap.id_to_damage, u, o)]
    /\ UNCHANGED <<mainVars, mon, run, early, mb>>

\* step_wait: the inner step's observation, extended; rewards, dones and
\* infos pass through.
WrapStepWait ==
    /\ wrap.pc = "ready"
    /\ \E o \in WrapObs, u \in [1..WrapCells -> CellTypes] :
          wrap' = [wrap EXCEPT !.call = "step_wait",
                               !.obs = o, !.unit_type_map = u,
                               !.out = AddAttackOnehot(wrap.id_to_damage, u, o)]
    /\ UNCHANGED <<mainVars, mon, run, early, mb>>

NextWrap ==
    \/ WrapReset
    \/ WrapStepWait

SpecWrap == InitWrap /\ [][NextWrap]_vars

(* ================================================================== *)
(* Properties                                                          *)
(* ================================================================== *)

\* A sampling-mode call that has drawn its source indices.
SourceSampled ==
    /\ ga.pc \in {"src_sampled", "param_mask", "sampled", "returned"}
    /\ ga.mode = "sample"

\* A sampling-mode call that has drawn its parameter components.
ParamsSampled == ga.pc \in {"sampled", "returned"} /\ ga.mode = "sample"

\* The mask component c of batch row b was sampled under.
SampledUnder(c, b) ==
    IF c = 1 THEN ga.source_mask[b]
    ELSE Split(ga.param_mask, ParamSplits)[c - 1][b]

HasTrue(row) == \E i \in DOMAIN row : row[i]
HasFalse(row) == \E i \in DOMAIN row : ~row[i]

\* C1: whenever a component was sampled under a mask row with at least one
\* true entry, the index drawn is one whose mask bit is true.
C1_SampleIsLegal ==
    /\ SourceSampled =>
          \A b \in 1..ga.B :
              HasTrue(ga.source_mask[b]) => ga.source_mask[b][ga.src_act[b] + 1]
    /\ ParamsSampled =>
          \A c \in 2..K1 : \A b \in 1..ga.B :
              HasTrue(SampledUnder(c, b)) => SampledUnder(c, b)[ga.acts[c][b] + 1]

\* C1 happens: a source and a parameter were drawn under rows that forbid an
\* index and allow another.
C1_Witness ==
    /\ ParamsSampled
    /\ \E b \in 1..ga.B :
          /\ HasTrue(ga.source_mask[b]) /\ HasFalse(ga.source_mask[b])
          /\ HasTrue(SampledUnder(2, b)) /\ HasFalse(SampledUnder(2, b))

\* C2 as claimed: a sampling-mode call never gets as far as drawing source
\* indices when some batch element's source-mask row is all false.
C2_AnyEmptySourceRowRaises ==
    SourceSampled => \A b \in 1..ga.B : HasTrue(ga.source_mask[b])

\* C3 as claimed: a sampling-mode call never gets as far as drawing parameter
\* components when some batch element's parameter-mask row is all false.
C3_AnyEmptyParamRowRaises ==
    ParamsSampled => \A b \in 1..ga.B : HasTrue(ga.param_mask[b])

\* The rollout steps whose buffer slots have been written: those of the
\* current update so far, and all of them once an update has completed.
Recorded == {t \in 1..NumSteps : t <= step \/ update > 1}

\* Segment c (per nvec) of the mask recorded for step t, environment e.
RecordedSegment(t, e, c) == SplitRow(invalid_action_masks[t][e], splits)[c]

\* C4 as claimed: every component of every recorded joint action is an index
\* whose bit is set in its segment of the mask recorded with it.
C4_RecordedActionsLegal ==
    \A t \in Recorded : \A e \in 1..NumEnvs : \A c \in 1..K1 :
        ToBool(RecordedSegment(t, e, c)[actions[t][e][c] + 1])

\* The getUnitActionMasks queries the running call has sent.
ActionMaskCalls ==
    {i \in DOMAIN envCalls : envCalls[i].op = "getUnitActionMasks"}

\* The only true index of a row, if it has exactly one.
OnlyTrue(row, i) == row[i + 1] /\ \A j \in DOMAIN row : row[j] => j = i + 1

\* C5: a sampling-mode call has sent no parameter-mask query while no
\* parameter component is drawn unless it is just about to draw them, never
\* more than one, and once the parameter components are drawn exactly one,
\* whose argument is the source indices drawn (the returned source component),
\* which for a source row with a single legal unit is that unit.
C5_ParamQueryOnceWithSampledSource ==
    (ga.pc # "idle" /\ ga.mode = "sample") =>
        /\ Cardinality(ActionMaskCalls) <= 1
        /\ ga.pc \in {"entered", "source_mask", "src_sampled"} =>
              ActionMaskCalls = {} /\ ga.acts = <<>>
        /\ ga.pc \in {"param_mask", "sampled", "returned"} =>
              /\ Cardinality(ActionMaskCalls) = 1
              /\ \A i \in ActionMaskCalls :
                    /\ envCalls[i].units = ga.src_act
                    /\ \A b \in 1..ga.B : \A u \in 0..(NVec[1] - 1) :
                          OnlyTrue(ga.source_mask[b], u) => envCalls[i].units[b] = u
        /\ ParamsSampled =>
              \A i \in ActionMaskCalls : envCalls[i].units = ga.action[1]

\* C5 happens: the parameters were drawn after a query for unit 1, the only
\* legal unit of an environment.
C5_Witness ==
    /\ ParamsSampled
    /\ \E b \in 1..ga.B :
          OnlyTrue(ga.source_mask[b], 1) /\ envCalls[2].units[b] = 1

\* C6: the queries of a call are a prefix of <<source mask, parameter mask>>:
\* the first query is the source-mask query, a parameter-mask query is the
\* second, and it is sent only once the source mask is back and the source
\* indices are drawn.
C6_QueriesOrdered ==
    /\ Len(envCalls) <= 2
    /\ \A i \in DOMAIN envCalls :
          /\ i = 1 => envCalls[i].op = "getUnitLocationMasks"
          /\ i = 2 => /\ envCalls[i].op = "getUnitActionMasks"
                      /\ ga.source_mask # <<>>
                      /\ ga.src_act # <<>>
                      /\ ga.pc \in {"param_mask", "sampled", "returned", "raised"}
    /\ ga.pc \in {"source_mask", "src_sampled"} => Len(envCalls) = 1
    /\ (ga.pc = "src_sampled") => ga.param_mask = <<>>

\* C6 happens: both queries were sent.
C6_Witness == Len(envCalls) = 2 /\ ga.pc = "returned"

\* C7: an evaluation-mode call sends the environment no query, holds no
\* queried mask, and returns the score of the provided action under the
\* distributions built from the provided mask split per nvec.
C7_EvalNeverQueries ==
    (ga.pc # "idle" /\ ga.mode = "eval") =>
        /\ envCalls = <<>>
        /\ ga.source_mask = <<>> /\ ga.param_mask = <<>>
        /\ ga.pc \in {"entered", "returned"}
        /\ ga.pc = "returned" =>
              /\ \A c \in 1..K1 :
                    ga.cats[c].masks =
                        Split(MaskToBool(ga.invalid_action_masks), splits)[c]
              /\ ga.logprob =
                    JointLogProb(Cats(Split(Logits(params, ga.x), splits),
                                      MaskToBool(ga.invalid_action_masks)),
                                 ga.action, ga.B)

\* C7 happens: an evaluation-mode call has returned.
C7_Witness == ga.pc = "returned" /\ ga.mode = "eval"

\* C8: while the parameters are those the rollout sampled under (the snapshot
\* taken at the start of the first epoch), evaluating stored actions under
\* their stored masks returns the log-probabilities stored with them.
C8_RoundTrip ==
    (pc = "evaluating" /\ ga.pc = "returned" /\ epoch = 0
        /\ params = target_agent) =>
        ga.logprob = Take(Flatten(logprobs), minibatch_ind)

\* C8 happens: the second minibatch was evaluated under unchanged parameters,
\* for an action whose probability is neither 0 nor 1.
C8_Witness ==
    /\ pc = "evaluating" /\ ga.pc = "returned" /\ epoch = 0
    /\ params = target_agent /\ start > 0
    /\ \E b \in 1..ga.B : ga.logprob[b][1] # ga.logprob[b][2] /\ ga.logprob[b][1] # 0

\* C9 as claimed: no distribution that get_action has built and scored an
\* action with was constructed from an all-false mask row.
C9_NoDistributionFromEmptyMask ==
    ga.pc = "returned" =>
        \A c \in 1..K1 : \A b \in 1..ga.B : HasTrue(ga.cats[c].masks[b])

\* C10 as claimed: the joint action a call returns or was given has one row
\* per batch element, holding that element's k+1 components in nvec order.
C10_ActionBatchFirst ==
    ga.pc = "returned" =>
        /\ Len(ga.action) = ga.B
        /\ \A b \in 1..ga.B : Len(ga.action[b]) = K1
        /\ ga.mode = "sample" =>
              \A b \in 1..ga.B : \A c \in 1..K1 : ga.action[b][c] = ga.acts[c][b]

\* C10 as amended: the joint action of get_action is component-first,
\* [k+1][batch], row c holding component c of every batch element; the mask
\* is batch-first, [batch][sum(nvec)]; the rollout buffer holds the transposed
\* action, one row of k+1 components per environment.
C10_ActionComponentFirst ==
    /\ ga.pc = "returned" =>
          /\ Len(ga.action) = K1
          /\ \A c \in 1..K1 : Len(ga.action[c]) = ga.B
          /\ Len(ga.invalid_action_masks) = ga.B
          /\ \A b \in 1..ga.B : Len(ga.invalid_action_masks[b]) = SumNVec
          /\ ga.mode = "sample" =>
                \A b \in 1..ga.B : \A c \in 1..K1 : ga.action[c][b] = ga.acts[c][b]
          /\ ga.mode = "eval" =>
                \A b \in 1..ga.B : \A c \in 1..K1 :
                    ga.action[c][b] = Take(Flatten(actions), minibatch_ind)[b][c]
    /\ \A t \in 1..NumSteps :
          /\ Len(actions[t]) = NumEnvs
          /\ \A e \in 1..NumEnvs : Len(actions[t][e]) = K1

\* C10 happens: the rollout stored an action that is not its own transpose,
\* and an evaluation call on a minibatch of another size than k+1 returned.
C10_Witness ==
    /\ ga.pc = "returned" /\ ga.mode = "eval" /\ ga.B # K1
    /\ \E t \in Recorded : actions[t] # Transpose(actions[t])

\* A mask the running call holds has another width than its nvec segments.
SourceMaskMisshaped ==
    ga.source_mask # <<>> /\ ~CanSplit(ga.source_mask, <<NVec[1]>>)
ParamMaskMisshaped ==
    ga.param_mask # <<>> /\ ~CanSplit(ga.param_mask, ParamSplits)

\* C11 as claimed: a sampling-mode call that holds a misshaped mask has
\* constructed no distribution and drawn no sample: a misshaped source mask is
\* rejected before the source distribution exists, and no component is drawn
\* or scored under a misshaped mask.
C11_MisshapedRejectedFirst ==
    (ga.pc # "idle" /\ ga.mode = "sample") =>
        /\ SourceMaskMisshaped => ga.src_act = <<>> /\ ga.acts = <<>> /\ ga.cats = <<>>
        /\ ParamMaskMisshaped => ga.acts = <<>> /\ ga.cats = <<>>

\* What the optimisation loop passes to the running evaluation-mode call.
ProvidedAction == Transpose(Take(Flatten(actions), minibatch_ind))
ProvidedMask == Take(Flatten(invalid_action_masks), minibatch_ind)

\* C12: an evaluation-mode call holds, from entry to return, the action and
\* the mask it was given, value for value and in the same layout; before the
\* return it has computed nothing, and at the return only the distributions,
\* the log-probability and the entropy have been computed.
C12_EvalReturnsProvided ==
    (ga.pc # "idle" /\ ga.mode = "eval") =>
        /\ ga.action = ProvidedAction
        /\ ga.invalid_action_masks = ProvidedMask
        /\ ga.x = Take(Flatten(obs), minibatch_ind)
        /\ ga.source_mask = <<>> /\ ga.src_act = <<>>
        /\ ga.param_mask = <<>> /\ ga.acts = <<>>
        /\ ga.pc = "entered" => ga.logprob = <<>> /\ ga.entropy = <<>>
        /\ ga.pc = "returned" => Len(ga.logprob) = ga.B /\ Len(ga.entropy) = ga.B

\* C12 happens: an evaluation-mode call has returned an action that is not
\* its own transpose and a mask with a legal and an illegal index.
C12_Witness ==
    /\ ga.pc = "returned" /\ ga.mode = "eval"
    /\ ga.action # Transpose(ga.action)
    /\ \E b \in 1..ga.B : \E i, j \in 1..SumNVec :
          ga.invalid_action_masks[b][i] = 1 /\ ga.invalid_action_masks[b][j] = 0

\* The probability of component c of the returned action for batch row b,
\* under the masked distribution of logits segment c and mask segment c.
ComponentProb(c, b) ==
    Probs(MaskedLogits(SplitRow(ga.logits[b], splits)[c],
                       SplitRow(MaskOf(ga)[b], splits)[c]))[ga.action[c][b] + 1]

\* The scenario of the specification: nvec = [4, 3], uniform logits, one
\* batch row, action (0, 1).
ScenarioNVec == <<4, 3>>
ScenarioLogits == <<<<0, 0, 0, 0, 0, 0, 0>>>>
ScenarioMask == <<<<TRUE, FALSE, TRUE, FALSE, TRUE, TRUE, FALSE>>>>
ScenarioAction == <<<<0>>, <<1>>>>

\* C13: the joint log-probability a call returns is, per batch row, the sum
\* of the k+1 per-component log-probabilities (the log of the product of the
\* component probabilities), each under its own segment of logits and mask;
\* the call's distributions are those of the per-nvec split; and in the
\* scenario the joint probability is 1/2 * 1/2.
C13_JointLogProbIsSum ==
    /\ ga.pc = "returned" =>
          /\ ga.cats = CatsOf(splits, ga.logits, MaskOf(ga))
          /\ ga.logprob = JointLogProbOf(splits, ga.logits, MaskOf(ga), ga.action)
          /\ \A b \in 1..ga.B :
                ga.logprob[b] =
                    Frac(ProdSeq([c \in 1..K1 |-> ComponentProb(c, b)[1]]),
                         ProdSeq([c \in 1..K1 |-> ComponentProb(c, b)[2]]))
    /\ JointLogProbOf(ScenarioNVec, ScenarioLogits, ScenarioMask, ScenarioAction)
           = <<Frac(1 * 1, 2 * 2)>>

\* C13 happens: a call returned a joint probability whose two component
\* probabilities differ and are neither 0 nor 1.
C13_Witness ==
    /\ ga.pc = "returned"
    /\ \E b \in 1..ga.B :
          /\ ComponentProb(1, b) # ComponentProb(2, b)
          /\ \A c \in 1..K1 : ComponentProb(c, b)[1] \notin {0, ComponentProb(c, b)[2]}

\* C14: the mask of a sampling-mode call is, per batch row, the source mask
\* followed by the parameter mask; its length is sum(nvec); its segment c per
\* nvec is the mask component c was sampled under, and the mask of the
\* distribution component c is scored with.
C14_ReturnedMaskIsSourceThenParam ==
    ParamsSampled =>
        /\ Len(ga.invalid_action_masks) = ga.B
        /\ \A b \in 1..ga.B :
              /\ ga.invalid_action_masks[b] = ga.source_mask[b] \o ga.param_mask[b]
              /\ Len(ga.source_mask[b]) = NVec[1]
              /\ Len(ga.param_mask[b]) = SumSeq(ParamSplits)
              /\ Len(ga.invalid_action_masks[b]) = SumNVec
              /\ \A c \in 1..K1 :
                    /\ SplitRow(ga.invalid_action_masks[b], splits)[c]
                          = SampledUnder(c, b)
                    /\ ga.pc = "returned" => ga.cats[c].masks[b] = SampledUnder(c, b)

\* C14 happens: a sampling-mode call returned a mask whose source segment
\* and parameter segment differ for some batch row.
C14_Witness ==
    /\ ga.pc = "returned" /\ ga.mode = "sample"
    /\ \E b \in 1..ga.B : ga.source_mask[b] # ga.param_mask[b]

C16_MaskedOutContributeZero ==
    ga.pc = "returned" =>
        \A c \in 1..K1 : \A b \in 1..ga.B :
            \A t \in ga.entropy[b][c] : ga.cats[c].masks[b][t[1] + 1]

\* A distribution constructed with a mask, all of whose bits are true.
AllTrueMask == dist.masks # <<>> /\ \A i \in DOMAIN dist.masks : dist.masks[i]

\* C17: a distribution constructed with an all-true mask has the logits, the
\* possible samples, the log-probability of every index and the entropy of
\* the unmasked distribution over the same logits.
C17_AllTrueMaskIsUnmasked ==
    (dist.pc = "scored" /\ AllTrueMask) =>
        LET plain == Categorical(<<dist.logits>>)
        IN  /\ dist.cat.logits = plain.logits
            /\ SampleSet(dist.cat) = SampleSet(plain)
            /\ dist.sample \in SampleSet(plain)
            /\ \A i \in 1..DistLen :
                  dist.log_prob[i] = LogProb(plain, <<i - 1>>)[1]
            /\ dist.entropy = Entropy(variant, plain)[1]

\* C17 happens: a distribution with an all-true mask over logits that are not
\* all equal was sampled and scored.
C17_Witness ==
    /\ dist.pc = "scored" /\ AllTrueMask
    /\ \E i, j \in 1..DistLen : dist.logits[i] # dist.logits[j]
    /\ dist.entropy # {}

\* What get_action of variant v returns from the frame f of a call that has
\* drawn its sample: the four-tuple.
FourTuple(v, f) ==
    <<Returned(v, f).action, Returned(v, f).logprob,
      Returned(v, f).entropy, Returned(v, f).invalid_action_masks>>

\* C18 as claimed: at every point of a sampling-mode call where a variant
\* decides between raising and going on, the two variants decide alike on
\* the same masks, and from the same logits, masks and draws they return the
\* same action, joint log-probability, joint entropy and mask.
C18_VariantsAgree ==
    (ga.pc # "idle" /\ ga.mode = "sample") =>
        /\ ga.pc = "source_mask" =>
              (RaisesOnEmpty("maxcho", ga.source_mask)
                  <=> RaisesOnEmpty("downsize", ga.source_mask))
        /\ ga.pc = "param_mask" =>
              (RaisesOnEmpty("maxcho", ga.param_mask)
                  <=> RaisesOnEmpty("downsize", ga.param_mask))
        /\ ga.pc = "sampled" => FourTuple("maxcho", ga) = FourTuple("downsize", ga)

\* C19: a step of the program changes the parameters only if it is the
\* optimizer step that ends a minibatch (the evaluation-mode call has
\* returned, the minibatch offset advances by one minibatch), and every
\* minibatch is ended by one such step: the offset never advances otherwise.
C19_ParamsOnlyByOptimizerStep ==
    [][/\ params' # params =>
             /\ pc = "evaluating" /\ ga.pc = "returned" /\ ga.mode = "eval"
             /\ start' = start + MinibatchSize
       /\ start' > start =>
             /\ pc = "evaluating" /\ ga.pc = "returned" /\ ga.mode = "eval"
             /\ start' = start + MinibatchSize
             /\ params' \in ParamVals
       /\ (pc = "evaluating" /\ pc' \notin {"evaluating", "error"}) =>
             start' = start + MinibatchSize]_vars

\* C19 happens: the optimizer step of the first minibatch has moved the
\* parameters and the second minibatch is being evaluated.
C19_Witness ==
    /\ pc = "evaluating" /\ ga.pc = "returned" /\ start > 0
    /\ params # target_agent

\* The sum of the fractions of ps at the indices in the set, as a fraction.
SumProbs(ps, indices) ==
    LET D == ProdSeq([i \in DOMAIN ps |-> ps[i][2]])
    IN  Frac(SumSeq([i \in DOMAIN ps |->
                        IF i \in indices THEN ps[i][1] * (D \div ps[i][2]) ELSE 0]),
             D)

\* C20: for a distribution constructed with a mask that has a true entry,
\* the probability of every masked-out index is zero, that of every masked-in
\* index is positive, and the masked-in probabilities add up to 1.
C20_MaskedInSumToOne ==
    (dist.pc = "scored" /\ dist.masks # <<>> /\ HasTrue(dist.masks)) =>
        /\ \A i \in 1..DistLen :
              IF dist.masks[i] THEN dist.log_prob[i][1] > 0
              ELSE dist.log_prob[i] = <<0, 1>>
        /\ SumProbs(dist.log_prob, {i \in 1..DistLen : dist.masks[i]}) = <<1, 1>>
        /\ \A i \in 1..DistLen : ~dist.masks[i] => dist.sample[1] # i - 1

\* C20 happens: a distribution was scored whose mask has two true entries
\* with different logits and a false entry whose logit is the largest.
C20_Witness ==
    /\ dist.pc = "scored" /\ dist.masks # <<>>
    /\ \E i, j, k \in 1..DistLen :
          /\ dist.masks[i] /\ dist.masks[j] /\ ~dist.masks[k]
          /\ dist.logits[i] < dist.logits[j]
          /\ dist.logits[k] >= dist.logits[j]

C22_NoAbortAfterRollout ==
    (variant = "downsize" /\ step = NumSteps) => pc # "error"

\* C23 as claimed: with --kle-rollback (and the epoch loop not left by
\* --kle-stop), the step after the minibatches of an epoch of the maxcho
\* variant either sets the parameters back to the snapshot of that epoch and
\* leaves the epoch loop, or keeps them and goes on to the next epoch (to the
\* end of the update after the last one).
C23_RollbackRestoresOrContinues ==
    [][(pc = "epoch_end" /\ variant = "maxcho" /\ args.kle_rollback
            /\ ~args.kle_stop) =>
          \/ params' = target_agent /\ pc' = "update_end"
          \/ /\ params' = params
             /\ pc' = IF epoch < UpdateEpochs THEN "epoch" ELSE "update_end"]_vars

\* The last call on the wrapper was a step_wait that returned.
MonStepped == mon.pc = "ready" /\ Len(mon.ret) = 4

\* C24 as claimed: whatever the script, the tuple step_wait returns holds the
\* done flags in the third position and the info list in the fourth.
C24_ReturnsObsRewsDonesInfos ==
    MonStepped =>
        /\ mon.ret[1].kind = "obs" /\ mon.ret[2].kind = "rews"
        /\ mon.ret[3].kind = "dones" /\ mon.ret[4].kind = "infos"

\* The index in the log of the first step of the episode of environment i that
\* the step at index k belongs to: the step after its previous done or reset.
RECURSIVE EpisodeStart(_, _, _)
EpisodeStart(log, i, k) ==
    IF k = 1 THEN 1
    ELSE IF log[k - 1].op = "reset" THEN k
    ELSE IF log[k - 1].dones[i] THEN k
    ELSE EpisodeStart(log, i, k - 1)

\* The rewards environment i received from its episode's first step up to k.
RECURSIVE RewardsSince(_, _, _, _)
RewardsSince(log, i, from, k) ==
    IF k < from THEN 0 ELSE log[k].rews[i] + RewardsSince(log, i, from, k - 1)

\* The done flags the inner environment has raised so far.
RECURSIVE DonesSeen(_, _)
DonesSeen(log, k) ==
    IF k = 0 THEN 0
    ELSE DonesSeen(log, k - 1)
         + (IF log[k].op = "step"
            THEN Cardinality({i \in 1..NumEnvs : log[k].dones[i]}) ELSE 0)

\* The info list inside the tuple the last step_wait returned.
ReturnedInfos == (CHOOSE j \in 1..4 : mon.ret[j].kind = "infos")

\* C25: after a step_wait, an environment that is done carries an episode
\* whose l is the number of steps and whose r is the sum of the rewards it
\* received since its previous done or reset, this step included, and both
\* of its counters are zero; an environment that is not done carries no
\* episode and its counters hold its running episode; after a reset the
\* counters are zero; epcount is the number of done flags seen so far.
C25_EpisodeAccounting ==
    /\ mon.pc = "ready" =>
          mon.epcount = DonesSeen(mon.log, Len(mon.log))
    /\ (mon.pc = "ready" /\ Len(mon.ret) = 1) =>
          mon.eprets = Zeros(NumEnvs) /\ mon.eplens = Zeros(NumEnvs)
    /\ MonStepped =>
          LET n == Len(mon.log)
              last == mon.log[n]
              infos == mon.ret[ReturnedInfos].value
          IN  \A i \in 1..NumEnvs :
                LET from == EpisodeStart(mon.log, i, n)
                    l == n - from + 1
                    r == RewardsSince(mon.log, i, from, n)
                IN  IF last.dones[i]
                    THEN /\ infos[i].episode = <<[r |-> r, l |-> l]>>
                         /\ mon.eprets[i] = 0
                         /\ mon.eplens[i] = 0
                    ELSE /\ infos[i].episode = <<>>
                         /\ mon.eprets[i] = r
                         /\ mon.eplens[i] = l

\* A second episode of environment 1 ends after two steps with rewards that
\* differ from the step count, while environment 2 has never been done.
C25_Witness ==
    /\ MonStepped
    /\ Len(mon.log) = 4
    /\ mon.log[2].op = "step" /\ mon.log[2].dones[1]
    /\ mon.log[3].op = "step" /\ ~mon.log[3].dones[1]
    /\ mon.log[4].dones[1]
    /\ mon.ret[ReturnedInfos].value[1].episode = <<[r |-> 0, l |-> 2]>>
    /\ mon.epcount = 2
    /\ mon.eplens[2] = 3

\* C26 as claimed: whenever update u is logged, global_step equals
\* u * batch_size, in a fresh run and in a resumed one.
C26_GlobalStepIsUpdateTimesBatch ==
    run.pc # "none" =>
        \A k \in 1..Len(run.logged) :
            run.logged[k].global_step = run.logged[k].update * RunBatchSize

\* The last K of the mean rewards seen so far.
LastK(seen) == [k \in 1..early_stop_K |-> seen[Len(seen) - early_stop_K + k]]

\* C27 as claimed: when early stopping ends the training, the window is the
\* K most recent mean rewards and their standard deviation is not above 5%
\* of the magnitude of their mean, whatever the sign of the mean:
\* 400 * (K * std)^2 <= (K * mean)^2.
C27_StopsOnlyOnSmallRelativeSpread ==
    early.pc = "stopped" =>
        /\ Len(early.seen) >= early_stop_K
        /\ early.recent_rewards = LastK(early.seen)
        /\ EarlyStopInvMaxVar * EarlyStopInvMaxVar * ScaledVariance(early.recent_rewards)
              <= SumSeq(early.recent_rewards) * SumSeq(early.recent_rewards)

\* The samples a minibatch holds.
Samples(minibatch) == {minibatch[k] : k \in 1..Len(minibatch)}

\* C28 as claimed: for every num_envs, num_steps and n_minibatch >= 1 an
\* epoch runs, and when it is over there have been exactly n_minibatch
\* parameter updates, each on minibatch_size samples, pairwise disjoint and
\* together covering the batch.
C28_EpochCutsIntoNMinibatches ==
    /\ mb.pc # "error"
    /\ mb.pc = "epoch_done" =>
          /\ Len(mb.minibatches) = mb.n_minibatch
          /\ \A k \in 1..Len(mb.minibatches) :
                /\ Len(mb.minibatches[k]) = mb.minibatch_size
                /\ Cardinality(Samples(mb.minibatches[k])) = mb.minibatch_size
          /\ \A k, l \in 1..Len(mb.minibatches) :
                k # l => Samples(mb.minibatches[k]) \cap Samples(mb.minibatches[l]) = {}
          /\ UNION {Samples(mb.minibatches[k]) : k \in 1..Len(mb.minibatches)}
                = 0..(mb.batch_size - 1)

\* The appended channels of cell c, and the channels set among them.
Appended(c) == SubSeq(wrap.out[c], Len(wrap.obs[c]) + 1, Len(wrap.out[c]))
SetBins(c) == {k \in 1..num_bins : Appended(c)[k] = 1}

\* The bins whose threshold is the smallest one that is >= damage.
SmallestThresholdBins(damage) ==
    {k \in 1..num_bins :
        /\ damage_bins[k] >= damage
        /\ \A j \in 1..num_bins :
              damage_bins[j] >= damage => damage_bins[k] <= damage_bins[j]}

====
